---- MODULE Spec2Model ----
(***************************************************************************)
(* The resource-operations facade of rust-install (src/utils/mod.rs): a    *)
(* layer over filesystem mutation, process execution and download that     *)
(* tags failures with a named, path-annotated error and notifies a sink    *)
(* before it mutates.                                                      *)
(*                                                                         *)
(* Spec drives every facade operation, one call at a time, over a small    *)
(* filesystem whose nodes have a kind only.  The other specifications      *)
(* refine one operation each: SpecEnsure (ensure_dir_exists step by step,  *)
(* one or two callers), SpecDownload (the byte stream and the hasher),     *)
(* SpecMatch (the lines and the mapper), SpecPerm (the permission bits).   *)
(***************************************************************************)
EXTENDS Integers, Sequences, FiniteSets, TLC

VARIABLES
    fs,       \* Spec, SpecEnsure: the filesystem, a node per path
    windows,  \* Spec, SpecPerm: the build's cfg(windows)
    call,     \* Spec: the last facade call, its operation and arguments
    trace,    \* Spec: what that call did, in program order
    result,   \* Spec: what that call returned
    epath,    \* SpecEnsure: the path every caller ensures
    start,    \* SpecEnsure: the kind of the node at epath at the start
    th,       \* SpecEnsure: each caller's place in ensure_dir_exists
    notes,    \* SpecEnsure: creating-directory notifications the sink got
    made,     \* SpecEnsure: times the directory was actually created
    rets,     \* SpecEnsure: the calls' answers, in the order they returned
    overlap,  \* SpecEnsure: whether two calls were ever in flight together
    dl,       \* SpecDownload: one download_file call, its stream and its hasher
    mt,       \* SpecMatch: one match_file call, its lines and its mapper
    pm        \* SpecPerm: the file make_executable works on, and its last call

(***************************************************************************)
(* The universe the calls draw their arguments from.                       *)
(***************************************************************************)
Paths == {"/a", "/b"}
Names == {"toolchain", "temp"}
Urls == {"https://dist/x"}

(***************************************************************************)
(* Result<T>, the Error variants the facade builds, the Notification       *)
(* variants it sends.  A variant is a record holding exactly the fields    *)
(* the facade gives it.                                                    *)
(***************************************************************************)
Ok(v) == [ok |-> TRUE, val |-> v]

Err(e) == [ok |-> FALSE, err |-> e]

Unit == "()"

IoError == "io::Error"

Notified(kind, a, b) == [ev |-> "notify", kind |-> kind, a |-> a, b |-> b]

Attempted(what, a, b) == [ev |-> "attempt", kind |-> what, a |-> a, b |-> b]

(***************************************************************************)
(* The filesystem: a node is missing, a regular file, a directory or a     *)
(* symbolic link to a path.                                                *)
(***************************************************************************)
NoNode == [kind |-> "none", to |-> ""]

FileNode == [kind |-> "file", to |-> ""]

DirNode == [kind |-> "dir", to |-> ""]

LinkNode(q) == [kind |-> "link", to |-> q]

Nodes == {NoNode, FileNode, DirNode} \cup {LinkNode(q) : q \in Paths}

\* The path a chain of links starting at p ends at, "" when the chain loops.
RECURSIVE Follow(_, _, _)
Follow(f, p, hops) ==
    IF f[p].kind # "link" THEN p
    ELSE IF hops = 0 THEN ""
    ELSE Follow(f, f[p].to, hops - 1)

Target(f, p) == Follow(f, p, Cardinality(Paths))

\* What metadata() sees at p, links followed: "none" when nothing is there.
Stat(f, p) == IF Target(f, p) = "" THEN "none" ELSE f[Target(f, p)].kind

is_directory(f, p) == Stat(f, p) = "dir"

is_file(f, p) == Stat(f, p) = "file"

\* fs::canonicalize: the resolved path, or a failure when nothing is there.
fs_canonicalize(f, p) ==
    IF Stat(f, p) = "none" THEN Err(IoError) ELSE Ok(Target(f, p))

(***************************************************************************)
(* The platform and raw calls the facade delegates to, as functions of the *)
(* filesystem.  io says that the call fails for a reason the model does    *)
(* not hold (permissions, a full disk, a dropped connection).              *)
(***************************************************************************)
Done(f, v) == [ok |-> TRUE, val |-> v, fs |-> f]

Failed(f) == [ok |-> FALSE, err |-> IoError, fs |-> f]

Put(f, p, node) == [f EXCEPT ![p] = node]

\* fs::create_dir_all: succeeds when the directory is there afterwards.
fs_create_dir_all(f, p, io) ==
    IF io THEN Failed(f)
    ELSE IF is_directory(f, p) THEN Done(f, Unit)
    ELSE IF f[p].kind = "none" THEN Done(Put(f, p, DirNode), Unit)
    ELSE Failed(f)

fs_remove_dir_all(f, p, io) ==
    IF ~io /\ f[p].kind = "dir" THEN Done(Put(f, p, NoNode), Unit) ELSE Failed(f)

fs_remove_file(f, p, io) ==
    IF ~io /\ f[p].kind \in {"file", "link"} THEN Done(Put(f, p, NoNode), Unit)
    ELSE Failed(f)

fs_read_dir(f, p, io) ==
    IF ~io /\ is_directory(f, p) THEN Done(f, "ReadDir") ELSE Failed(f)

\* fs::rename: the node moves; a directory does not replace a file, nor a
\* file a directory.
fs_rename(f, src, dest, io) ==
    IF io \/ f[src].kind = "none" THEN Failed(f)
    ELSE IF src = dest THEN Done(f, Unit)
    ELSE IF f[dest].kind = "none" \/ f[dest].kind = f[src].kind
              \/ (f[src].kind # "dir" /\ f[dest].kind # "dir")
         THEN Done(Put(Put(f, dest, f[src]), src, NoNode), Unit)
    ELSE Failed(f)

\* Opening a path for writing, created when missing: the path written to.
WriteTarget(f, p) ==
    IF Target(f, p) = "" \/ Stat(f, p) = "dir" THEN "" ELSE Target(f, p)

fs_copy(f, src, dest, io) ==
    IF ~io /\ is_file(f, src) /\ WriteTarget(f, dest) # ""
    THEN Done(Put(f, WriteTarget(f, dest), FileNode), "len")
    ELSE Failed(f)

fs_metadata(f, p, io) ==
    IF ~io /\ Stat(f, p) # "none" THEN Done(f, "Metadata") ELSE Failed(f)

fs_set_permissions(f, p, io) ==
    IF ~io /\ Stat(f, p) # "none" THEN Done(f, Unit) ELSE Failed(f)

raw_read_file(f, p, io) ==
    IF ~io /\ is_file(f, p) THEN Done(f, "contents") ELSE Failed(f)

raw_write_file(f, p, io) ==
    IF ~io /\ WriteTarget(f, p) # ""
    THEN Done(Put(f, WriteTarget(f, p), FileNode), Unit)
    ELSE Failed(f)

raw_append_file(f, p, io) == raw_write_file(f, p, io)

raw_filter_file(f, src, dest, io) ==
    IF ~io /\ is_file(f, src) /\ WriteTarget(f, dest) # ""
    THEN Done(Put(f, WriteTarget(f, dest), FileNode), "count")
    ELSE Failed(f)

raw_match_file_any(f, src, io) ==
    IF ~io /\ is_file(f, src) THEN Done(f, "option") ELSE Failed(f)

\* The raw link and copy primitives answer success or failure only.
raw_symlink(f, src, dest, io) ==
    IF ~io /\ f[dest].kind = "none" THEN Done(Put(f, dest, LinkNode(src)), Unit)
    ELSE Failed(f)

raw_hardlink(f, src, dest, io) ==
    IF ~io /\ f[src].kind = "file" /\ f[dest].kind = "none"
    THEN Done(Put(f, dest, FileNode), Unit)
    ELSE Failed(f)

raw_copy_dir(f, src, dest, io) ==
    IF ~io /\ is_directory(f, src) /\ f[dest].kind = "none"
    THEN Done(Put(f, dest, DirNode), Unit)
    ELSE Failed(f)

raw_download_to(f, p, io) ==
    IF ~io /\ WriteTarget(f, p) # ""
    THEN Done(Put(f, WriteTarget(f, p), FileNode), Unit)
    ELSE Failed(f)

\* raw::ensure_dir_exists: create if missing, calling back before it creates.
raw_ensure_dir_exists(f, p, io) ==
    IF ~is_directory(f, p)
    THEN LET c == fs_create_dir_all(f, p, io)
         IN  [called |-> TRUE, r |-> IF c.ok THEN Done(c.fs, TRUE) ELSE c]
    ELSE [called |-> FALSE, r |-> Done(f, FALSE)]

(***************************************************************************)
(* The Error variants, each with the fields the facade fills in.           *)
(***************************************************************************)
CreatingDirectory(name, path, e) ==
    [variant |-> "CreatingDirectory", name |-> name, path |-> path, error |-> e]

ReadingFile(name, path, e) ==
    [variant |-> "ReadingFile", name |-> name, path |-> path, error |-> e]

WritingFile(name, path, e) ==
    [variant |-> "WritingFile", name |-> name, path |-> path, error |-> e]

RenamingFile(name, src, dest, e) ==
    [variant |-> "RenamingFile", name |-> name, src |-> src, dest |-> dest,
     error |-> e]

\* A mapper that swaps the two paths.
RenamingDirectory_swapped(name, src, dest, e) ==
    [variant |-> "RenamingDirectory", name |-> name, src |-> dest,
     dest |-> src, error |-> e]

RenamingDirectory(name, src, dest, e) ==
    [variant |-> "RenamingDirectory", name |-> name, src |-> src,
     dest |-> dest, error |-> e]

FilteringFile(name, src, dest, e) ==
    [variant |-> "FilteringFile", name |-> name, src |-> src, dest |-> dest,
     error |-> e]

DownloadingFile(url, path) ==
    [variant |-> "DownloadingFile", url |-> url, path |-> path]

RunningCommand(name, e) ==
    [variant |-> "RunningCommand", name |-> name, error |-> e]

CommandStatus(name, status) ==
    [variant |-> "CommandStatus", name |-> name, status |-> status]

NotAFile(path) == [variant |-> "NotAFile", path |-> path]

NotADirectory(path) == [variant |-> "NotADirectory", path |-> path]

LinkingDirectory(src, dest) ==
    [variant |-> "LinkingDirectory", src |-> src, dest |-> dest]

LinkingFile(src, dest) == [variant |-> "LinkingFile", src |-> src, dest |-> dest]

CopyingDirectory(src, dest) ==
    [variant |-> "CopyingDirectory", src |-> src, dest |-> dest]

CopyingFile(src, dest) == [variant |-> "CopyingFile", src |-> src, dest |-> dest]

RemovingDirectory(name, path, e) ==
    [variant |-> "RemovingDirectory", name |-> name, path |-> path, error |-> e]

RemovingFile(name, path, e) ==
    [variant |-> "RemovingFile", name |-> name, path |-> path, error |-> e]

ReadingDirectory(name, path, e) ==
    [variant |-> "ReadingDirectory", name |-> name, path |-> path, error |-> e]

OpeningBrowser == [variant |-> "OpeningBrowser"]

SettingPermissions(path) == [variant |-> "SettingPermissions", path |-> path]

LocatingHome == [variant |-> "LocatingHome"]

\* Result::map_err and Option::ok_or_else on a platform or raw answer.
map_err(r, e) == IF r.ok THEN Ok(r.val) ELSE Err(e)

facadeVars == <<call, trace, result>>

ensureVars == <<epath, start, th, notes, made, rets, overlap>>

others == <<windows, ensureVars, dl, mt, pm>>

outsideEnsure == <<windows, facadeVars, dl, mt, pm>>

outsideDownload == <<fs, windows, facadeVars, ensureVars, mt, pm>>

outsideMatch == <<fs, windows, facadeVars, ensureVars, dl, pm>>

outsidePerm == <<fs, facadeVars, ensureVars, dl, mt>>

vars == <<fs, windows, facadeVars, ensureVars, dl, mt, pm>>

IdleFacade == call = [op |-> "none"] /\ trace = <<>> /\ result = [ok |-> TRUE, val |-> "()"]

IdleEnsure ==
    /\ epath = ""
    /\ start = ""
    /\ th = <<>>
    /\ notes = 0
    /\ made = 0
    /\ rets = <<>>
    /\ overlap = FALSE

IdleDownload == dl = [pc |-> "off"]

IdleMatch == mt = [pc |-> "off"]

IdlePerm == pm = [pc |-> "off"]

(***************************************************************************)
(* Spec: the facade's operations, one call at a time.  Each action is one  *)
(* call: it draws the arguments and the platform's answer, records what    *)
(* the call did in program order, and leaves the filesystem as the call    *)
(* leaves it.                                                              *)
(***************************************************************************)
Returns(c, t, r, f) ==
    /\ call' = c
    /\ trace' = t
    /\ result' = r
    /\ fs' = f
    /\ UNCHANGED others

\* A facade that reports "nothing to create" as a failure to create.
ensure_dir_exists_result_strict(name, path, r) ==
    IF r.ok /\ r.val THEN Ok(TRUE) ELSE Err(CreatingDirectory(name, path, IoError))

\* The facade's answer from the raw answer: map_err with the call's name and path.
ensure_dir_exists_result(name, path, r) ==
    map_err(r, CreatingDirectory(name, path, IoError))

ensure_dir_exists ==
    \E name \in Names, path \in Paths, io \in BOOLEAN :
        LET e == raw_ensure_dir_exists(fs, path, io)
        IN  Returns([op |-> "ensure_dir_exists", name |-> name, path |-> path],
                    IF e.called
                    THEN <<Notified("CreatingDirectory", name, path),
                           Attempted("fs::create_dir_all", path, "")>>
                    ELSE <<>>,
                    ensure_dir_exists_result(name, path, e.r),
                    e.r.fs)

read_file ==
    \E name \in Names, path \in Paths, io \in BOOLEAN :
        LET r == raw_read_file(fs, path, io)
        IN  Returns([op |-> "read_file", name |-> name, path |-> path],
                    <<Attempted("raw::read_file", path, "")>>,
                    map_err(r, ReadingFile(name, path, IoError)), r.fs)

write_file ==
    \E name \in Names, path \in Paths, io \in BOOLEAN :
        LET r == raw_write_file(fs, path, io)
        IN  Returns([op |-> "write_file", name |-> name, path |-> path],
                    <<Attempted("raw::write_file", path, "")>>,
                    map_err(r, WritingFile(name, path, IoError)), r.fs)

append_file ==
    \E name \in Names, path \in Paths, io \in BOOLEAN :
        LET r == raw_append_file(fs, path, io)
        IN  Returns([op |-> "append_file", name |-> name, path |-> path],
                    <<Attempted("raw::append_file", path, "")>>,
                    map_err(r, WritingFile(name, path, IoError)), r.fs)

rename_file ==
    \E name \in Names, src \in Paths, dest \in Paths, io \in BOOLEAN :
        LET r == fs_rename(fs, src, dest, io)
        IN  Returns([op |-> "rename_file", name |-> name, src |-> src,
                     dest |-> dest],
                    <<Attempted("fs::rename", src, dest)>>,
                    map_err(r, RenamingFile(name, src, dest, IoError)), r.fs)

rename_dir ==
    \E name \in Names, src \in Paths, dest \in Paths, io \in BOOLEAN :
        LET r == fs_rename(fs, src, dest, io)
        IN  Returns([op |-> "rename_dir", name |-> name, src |-> src,
                     dest |-> dest],
                    <<Attempted("fs::rename", src, dest)>>,
                    map_err(r, RenamingDirectory(name, src, dest, IoError)),
                    r.fs)

filter_file ==
    \E name \in Names, src \in Paths, dest \in Paths, io \in BOOLEAN :
        LET r == raw_filter_file(fs, src, dest, io)
        IN  Returns([op |-> "filter_file", name |-> name, src |-> src,
                     dest |-> dest],
                    <<Attempted("raw::filter_file", src, dest)>>,
                    map_err(r, FilteringFile(name, src, dest, IoError)), r.fs)

\* A mapper copied from filter_file's.
match_file_result_as_filter(name, src, r) ==
    map_err(r, FilteringFile(name, src, src, IoError))

\* The facade's answer from raw::match_file's: map_err with name and src.
match_file_result(name, src, r) == map_err(r, ReadingFile(name, src, IoError))

match_file ==
    \E name \in Names, src \in Paths, io \in BOOLEAN :
        LET r == raw_match_file_any(fs, src, io)
        IN  Returns([op |-> "match_file", name |-> name, src |-> src],
                    <<Attempted("raw::match_file", src, "")>>,
                    match_file_result(name, src, r), r.fs)

\* A canonicalize_path that gives up silently.
canonicalize_path_silent ==
    \E path \in Paths :
        LET r == fs_canonicalize(fs, path)
        IN  Returns([op |-> "canonicalize_path", path |-> path],
                    <<Attempted("fs::canonicalize", path, "")>>,
                    IF r.ok THEN r.val ELSE path,
                    fs)

canonicalize_path ==
    \E path \in Paths :
        LET r == fs_canonicalize(fs, path)
        IN  Returns([op |-> "canonicalize_path", path |-> path],
                    IF r.ok
                    THEN <<Attempted("fs::canonicalize", path, "")>>
                    ELSE <<Attempted("fs::canonicalize", path, ""),
                           Notified("NoCanonicalPath", path, "")>>,
                    IF r.ok THEN r.val ELSE path,
                    fs)

download_file_result(url, path, r) == map_err(r, DownloadingFile(url, path))

download_file ==
    \E url \in Urls, path \in Paths, io \in BOOLEAN :
        LET r == raw_download_to(fs, path, io)
        IN  Returns([op |-> "download_file", url |-> url, path |-> path],
                    <<Notified("DownloadingFile", url, path),
                      Attempted("raw::download_file", url, path)>>,
                    download_file_result(url, path, r), r.fs)


(***************************************************************************)
(* Command::status(): the process cannot be launched, or it runs and ends  *)
(* with an exit code or killed by a signal.                                *)
(***************************************************************************)
MaxExitCode == 2

Exited(code) == [exited |-> TRUE, code |-> code]

Signalled == [exited |-> FALSE, code |-> -1]

ExitStatuses == {Exited(c) : c \in 0..MaxExitCode} \cup {Signalled}

StatusAnswers ==
    {[ok |-> FALSE, err |-> IoError]} \cup {[ok |-> TRUE, val |-> s] : s \in ExitStatuses}

\* ExitStatus::success
success(s) == s.exited /\ s.code = 0

\* A cmd_status that never looks at the exit status.
cmd_status_result_unchecked(name, st) ==
    IF ~st.ok THEN Err(RunningCommand(name, st.err)) ELSE Ok(Unit)

cmd_status_result(name, st) ==
    IF ~st.ok THEN Err(RunningCommand(name, st.err))
    ELSE IF success(st.val) THEN Ok(Unit)
    ELSE Err(CommandStatus(name, st.val))

cmd_status ==
    \E name \in Names, st \in StatusAnswers :
        Returns([op |-> "cmd_status", name |-> name, status |-> st],
                <<Attempted("Command::status", name, "")>>,
                cmd_status_result(name, st), fs)

assert_is_file_result(f, path) ==
    IF ~is_file(f, path) THEN Err(NotAFile(path)) ELSE Ok(Unit)

assert_is_file ==
    \E path \in Paths :
        Returns([op |-> "assert_is_file", path |-> path], <<>>,
                assert_is_file_result(fs, path), fs)

\* An assert_is_directory that only asks whether the path exists.
assert_is_directory_result_exists(f, path) ==
    IF Stat(f, path) = "none" THEN Err(NotADirectory(path)) ELSE Ok(Unit)

assert_is_directory_result(f, path) ==
    IF ~is_directory(f, path) THEN Err(NotADirectory(path)) ELSE Ok(Unit)

assert_is_directory ==
    \E path \in Paths :
        Returns([op |-> "assert_is_directory", path |-> path], <<>>,
                assert_is_directory_result(fs, path), fs)

symlink_dir ==
    \E src \in Paths, dest \in Paths, io \in BOOLEAN :
        LET r == raw_symlink(fs, src, dest, io)
        IN  Returns([op |-> "symlink_dir", src |-> src, dest |-> dest],
                    <<Notified("LinkingDirectory", src, dest),
                      Attempted("raw::symlink_dir", src, dest)>>,
                    map_err(r, LinkingDirectory(src, dest)), r.fs)

symlink_file ==
    \E src \in Paths, dest \in Paths, io \in BOOLEAN :
        LET r == raw_symlink(fs, src, dest, io)
        IN  Returns([op |-> "symlink_file", src |-> src, dest |-> dest],
                    <<Attempted("raw::symlink_file", src, dest)>>,
                    map_err(r, LinkingFile(src, dest)), r.fs)

hardlink_file ==
    \E src \in Paths, dest \in Paths, io \in BOOLEAN :
        LET r == raw_hardlink(fs, src, dest, io)
        IN  Returns([op |-> "hardlink_file", src |-> src, dest |-> dest],
                    <<Attempted("raw::hardlink", src, dest)>>,
                    map_err(r, LinkingFile(src, dest)), r.fs)

copy_dir ==
    \E src \in Paths, dest \in Paths, io \in BOOLEAN :
        LET r == raw_copy_dir(fs, src, dest, io)
        IN  Returns([op |-> "copy_dir", src |-> src, dest |-> dest],
                    <<Notified("CopyingDirectory", src, dest),
                      Attempted("raw::copy_dir", src, dest)>>,
                    map_err(r, CopyingDirectory(src, dest)), r.fs)

copy_file ==
    \E src \in Paths, dest \in Paths, io \in BOOLEAN :
        LET r == fs_copy(fs, src, dest, io)
        IN  Returns([op |-> "copy_file", src |-> src, dest |-> dest],
                    <<Attempted("fs::copy", src, dest)>>,
                    IF r.ok THEN Ok(Unit) ELSE Err(CopyingFile(src, dest)),
                    r.fs)

\* A remove_dir that tells the sink only after it has deleted.
remove_dir_notifying_late ==
    \E name \in Names, path \in Paths, io \in BOOLEAN :
        LET r == fs_remove_dir_all(fs, path, io)
        IN  Returns([op |-> "remove_dir", name |-> name, path |-> path],
                    <<Attempted("fs::remove_dir_all", path, "")>>
                        \o (IF r.ok
                            THEN <<Notified("RemovingDirectory", name, path)>>
                            ELSE <<>>),
                    map_err(r, RemovingDirectory(name, path, IoError)), r.fs)

remove_dir ==
    \E name \in Names, path \in Paths, io \in BOOLEAN :
        LET r == fs_remove_dir_all(fs, path, io)
        IN  Returns([op |-> "remove_dir", name |-> name, path |-> path],
                    <<Notified("RemovingDirectory", name, path),
                      Attempted("fs::remove_dir_all", path, "")>>,
                    map_err(r, RemovingDirectory(name, path, IoError)), r.fs)

remove_file ==
    \E name \in Names, path \in Paths, io \in BOOLEAN :
        LET r == fs_remove_file(fs, path, io)
        IN  Returns([op |-> "remove_file", name |-> name, path |-> path],
                    <<Attempted("fs::remove_file", path, "")>>,
                    map_err(r, RemovingFile(name, path, IoError)), r.fs)

read_dir ==
    \E name \in Names, path \in Paths, io \in BOOLEAN :
        LET r == fs_read_dir(fs, path, io)
        IN  Returns([op |-> "read_dir", name |-> name, path |-> path],
                    <<Attempted("fs::read_dir", path, "")>>,
                    map_err(r, ReadingDirectory(name, path, IoError)), r.fs)

\* raw::open_browser answers io::Result<bool>.
BrowserAnswers == {Ok(TRUE), Ok(FALSE), Err(IoError)}

open_browser_result(b) == IF b.ok /\ b.val THEN Ok(Unit) ELSE Err(OpeningBrowser)

open_browser ==
    \E path \in Paths, b \in BrowserAnswers :
        Returns([op |-> "open_browser", path |-> path],
                <<Attempted("raw::open_browser", path, "")>>,
                open_browser_result(b), fs)

set_permissions_result(path, setOk) ==
    IF setOk THEN Ok(Unit) ELSE Err(SettingPermissions(path))

set_permissions ==
    \E path \in Paths, io \in BOOLEAN :
        LET r == fs_set_permissions(fs, path, io)
        IN  Returns([op |-> "set_permissions", path |-> path],
                    <<Attempted("fs::set_permissions", path, "")>>,
                    set_permissions_result(path, r.ok), r.fs)

\* make_executable's answer, from the build and the two platform answers.
make_executable_result(win, path, metaOk, setOk) ==
    IF win THEN Ok(Unit)
    ELSE IF ~metaOk THEN Err(SettingPermissions(path))
    ELSE set_permissions_result(path, setOk)

make_executable ==
    \E path \in Paths, ioMeta \in BOOLEAN, ioSet \in BOOLEAN :
        LET m == fs_metadata(fs, path, ioMeta)
            r == fs_set_permissions(fs, path, ioSet)
        IN  Returns([op |-> "make_executable", path |-> path],
                    IF windows THEN <<>>
                    ELSE IF ~m.ok THEN <<Attempted("fs::metadata", path, "")>>
                    ELSE <<Attempted("fs::metadata", path, ""),
                           Attempted("fs::set_permissions", path, "")>>,
                    make_executable_result(windows, path, m.ok, r.ok), fs)

\* get_special_folder on windows; home_dir then to_absolute elsewhere.
get_local_data_path_result(win, folder, home, abs) ==
    IF win THEN (IF folder.ok THEN Ok(folder.val) ELSE Err(LocatingHome))
    ELSE IF home.ok /\ abs THEN Ok(home.val) ELSE Err(LocatingHome)

get_local_data_path ==
    \E home \in {Ok(p) : p \in Paths} \cup {Err("None")}, abs \in BOOLEAN :
        Returns([op |-> "get_local_data_path"],
                <<Attempted(IF windows THEN "get_special_folder" ELSE "home_dir",
                            "", "")>>,
                get_local_data_path_result(windows, home, home, abs), fs)

Init ==
    /\ fs \in [Paths -> Nodes]
    /\ windows \in BOOLEAN
    /\ IdleFacade
    /\ IdleEnsure
    /\ IdleDownload
    /\ IdleMatch
    /\ IdlePerm

Next ==
    \/ ensure_dir_exists
    \/ read_file
    \/ write_file
    \/ append_file
    \/ rename_file
    \/ rename_dir
    \/ filter_file
    \/ match_file
    \/ canonicalize_path
    \/ download_file
    \/ cmd_status
    \/ assert_is_file
    \/ assert_is_directory
    \/ symlink_dir
    \/ symlink_file
    \/ hardlink_file
    \/ copy_dir
    \/ copy_file
    \/ remove_dir
    \/ remove_file
    \/ read_dir
    \/ open_browser
    \/ set_permissions
    \/ make_executable
    \/ get_local_data_path

Spec == Init /\ [][Next]_vars

(***************************************************************************)
(* SpecEnsure: ensure_dir_exists step by step, so that calls interleave.   *)
(* A caller checks is_directory, and when the directory is missing calls   *)
(* the notifying callback and then fs::create_dir_all; the facade maps the *)
(* answer when the raw call returns.                                       *)
(***************************************************************************)
Threads == {"t1", "t2"}

\* Calls made over a run, by all the callers together.
MaxCalls == 3

IdleThread == [pc |-> "idle", name |-> "", r |-> Ok(FALSE), io |-> FALSE]

Started == Len(rets) + Cardinality({t \in Threads : th[t].pc # "idle"})

\* A callback that forgets the sink.
creating_directory_callback_silent(n) == n

\* The callback the facade hands to the raw call: one notification to the sink.
creating_directory_callback(n) == n + 1

e_call(t) ==
    /\ th[t].pc = "idle"
    /\ Started < MaxCalls
    /\ \E name \in Names :
           th' = [th EXCEPT ![t] = [@ EXCEPT !.pc = "check", !.name = name,
                                             !.io = FALSE]]
    /\ overlap' = (overlap \/ \E u \in Threads \ {t} : th[u].pc # "idle")
    /\ UNCHANGED <<fs, outsideEnsure, epath, start, notes, made, rets>>

e_check(t) ==
    /\ th[t].pc = "check"
    /\ th' = [th EXCEPT ![t] =
                 IF ~is_directory(fs, epath)
                 THEN [@ EXCEPT !.pc = "callback"]
                 ELSE [@ EXCEPT !.pc = "ret", !.r = Ok(FALSE)]]
    /\ UNCHANGED <<fs, outsideEnsure, epath, start, notes, made, rets, overlap>>

e_callback(t) ==
    /\ th[t].pc = "callback"
    /\ notes' = creating_directory_callback(notes)
    /\ th' = [th EXCEPT ![t].pc = "create"]
    /\ UNCHANGED <<fs, outsideEnsure, epath, start, made, rets, overlap>>

e_create(t) ==
    /\ th[t].pc = "create"
    /\ \E io \in BOOLEAN :
           LET c == fs_create_dir_all(fs, epath, io)
           IN  /\ fs' = c.fs
               /\ made' = IF c.fs # fs THEN made + 1 ELSE made
               /\ th' = [th EXCEPT ![t] =
                            [@ EXCEPT !.pc = "ret", !.io = io,
                                      !.r = IF c.ok THEN Ok(TRUE) ELSE Err(c.err)]]
    /\ UNCHANGED <<outsideEnsure, epath, start, notes, rets, overlap>>

e_return(t) ==
    /\ th[t].pc = "ret"
    /\ rets' = Append(rets, [io |-> th[t].io, name |-> th[t].name,
                             res |-> ensure_dir_exists_result(th[t].name, epath,
                                                              th[t].r)])
    /\ th' = [th EXCEPT ![t] = IdleThread]
    /\ UNCHANGED <<fs, outsideEnsure, epath, start, notes, made, overlap>>

InitEnsure ==
    /\ fs \in [Paths -> Nodes]
    /\ epath \in Paths
    /\ start = fs[epath].kind
    /\ th = [t \in Threads |-> IdleThread]
    /\ notes = 0
    /\ made = 0
    /\ rets = <<>>
    /\ overlap = FALSE
    /\ windows = FALSE
    /\ IdleFacade
    /\ IdleDownload
    /\ IdleMatch
    /\ IdlePerm

NextEnsure ==
    \E t \in Threads :
        \/ e_call(t)
        \/ e_check(t)
        \/ e_callback(t)
        \/ e_create(t)
        \/ e_return(t)

SpecEnsure == InitEnsure /\ [][NextEnsure]_vars

(***************************************************************************)
(* Claims checked under SpecEnsure.                                        *)
(***************************************************************************)
NoIoFailure ==
    /\ \A i \in 1..Len(rets) : ~rets[i].io
    /\ \A t \in Threads : ~th[t].io

\* C3: calls of ensure_dir_exists on an initially missing path, one after
\* the other and with creation succeeding: the first answers created = true,
\* every later one created = false and none an error, the path is a
\* directory after every call, and the sink gets the creating-directory
\* notification exactly once, from the call that creates, before it creates.
C3_EnsureSequence ==
    (start = "none" /\ ~overlap /\ NoIoFailure) =>
        /\ \A i \in 1..Len(rets) : rets[i].res = Ok(i = 1)
        /\ Len(rets) >= 1 => (is_directory(fs, epath) /\ notes = 1 /\ made = 1)
        /\ made <= notes
        /\ notes <= 1

C3_Witness ==
    /\ start = "none"
    /\ ~overlap
    /\ NoIoFailure
    /\ Len(rets) = 3
    /\ rets[1].res = Ok(TRUE)
    /\ rets[3].res = Ok(FALSE)
    /\ notes = 1

\* C7: under any interleaving of calls of ensure_dir_exists on an initially
\* missing path, every call answers success unless the platform failed it
\* for a reason of its own (none fails because another caller created the
\* directory first), and the path is a directory once a call has succeeded.
C7_ConcurrentEnsure ==
    start = "none" =>
        \A i \in 1..Len(rets) :
            /\ rets[i].res.ok \/ rets[i].io
            /\ rets[i].res.ok => is_directory(fs, epath)

\* Two callers both found the directory missing, both notified and both
\* went on to create; both answered success.
C7_Witness ==
    /\ start = "none"
    /\ overlap
    /\ notes = 2
    /\ made = 1
    /\ Len(rets) = 2
    /\ rets[1].res = Ok(TRUE)
    /\ rets[2].res = Ok(TRUE)

(***************************************************************************)
(* Claims checked under Spec.                                              *)
(***************************************************************************)
NotifyIndexes == {i \in 1..Len(trace) : trace[i].ev = "notify"}

AttemptIndexes == {i \in 1..Len(trace) : trace[i].ev = "attempt"}

\* The notification each notify-first operation owes the sink.
IntentOf(c) ==
    CASE c.op = "remove_dir" -> Notified("RemovingDirectory", c.name, c.path)
      [] c.op = "copy_dir" -> Notified("CopyingDirectory", c.src, c.dest)
      [] c.op = "symlink_dir" -> Notified("LinkingDirectory", c.src, c.dest)
      [] c.op = "download_file" -> Notified("DownloadingFile", c.url, c.path)

\* C1: a call of remove_dir, copy_dir, symlink_dir or download_file sends the
\* sink exactly one notification, of the matching kind, before the one
\* underlying attempt, whether that attempt succeeds or fails.
C1_NotifyBeforeAttempt ==
    call.op \in {"remove_dir", "copy_dir", "symlink_dir", "download_file"} =>
        /\ Cardinality(NotifyIndexes) = 1
        /\ Cardinality(AttemptIndexes) = 1
        /\ \A n \in NotifyIndexes :
               /\ trace[n] = IntentOf(call)
               /\ \A a \in AttemptIndexes : n < a

C1_Witness ==
    /\ call.op = "remove_dir"
    /\ ~result.ok
    /\ trace = <<Notified("RemovingDirectory", call.name, call.path),
                 Attempted("fs::remove_dir_all", call.path, "")>>

FallibleOps ==
    {"ensure_dir_exists", "read_file", "write_file", "append_file",
     "rename_file", "rename_dir", "filter_file", "match_file", "download_file",
     "cmd_status", "assert_is_file", "assert_is_directory", "symlink_dir",
     "symlink_file", "hardlink_file", "copy_dir", "copy_file", "remove_dir",
     "remove_file", "read_dir", "open_browser", "set_permissions",
     "make_executable", "get_local_data_path"}

\* The Error variants that name each operation.
VariantsOf(op) ==
    CASE op = "ensure_dir_exists" -> {"CreatingDirectory"}
      [] op \in {"read_file", "match_file"} -> {"ReadingFile"}
      [] op \in {"write_file", "append_file"} -> {"WritingFile"}
      [] op = "rename_file" -> {"RenamingFile"}
      [] op = "rename_dir" -> {"RenamingDirectory"}
      [] op = "filter_file" -> {"FilteringFile"}
      [] op = "download_file" -> {"DownloadingFile"}
      [] op = "cmd_status" -> {"RunningCommand", "CommandStatus"}
      [] op = "assert_is_file" -> {"NotAFile"}
      [] op = "assert_is_directory" -> {"NotADirectory"}
      [] op = "symlink_dir" -> {"LinkingDirectory"}
      [] op \in {"symlink_file", "hardlink_file"} -> {"LinkingFile"}
      [] op = "copy_dir" -> {"CopyingDirectory"}
      [] op = "copy_file" -> {"CopyingFile"}
      [] op = "remove_dir" -> {"RemovingDirectory"}
      [] op = "remove_file" -> {"RemovingFile"}
      [] op = "read_dir" -> {"ReadingDirectory"}
      [] op = "open_browser" -> {"OpeningBrowser"}
      [] op \in {"set_permissions", "make_executable"} -> {"SettingPermissions"}
      [] op = "get_local_data_path" -> {"LocatingHome"}

PathFields == {"path", "src", "dest"}

\* What of the call's arguments the error must carry: the paths, and the
\* name when the call was given no path.
Owed(c) ==
    IF DOMAIN c \cap PathFields # {} THEN DOMAIN c \cap PathFields
    ELSE DOMAIN c \cap {"name"}

\* The error's field for an argument: a lone src (match_file's) is the
\* error's path.
FieldFor(c, f) == IF f = "src" /\ "dest" \notin DOMAIN c THEN "path" ELSE f

Carries(e, c) ==
    \A f \in Owed(c) : FieldFor(c, f) \in DOMAIN e /\ e[FieldFor(c, f)] = c[f]

WellFormedResult(c, r) ==
    /\ DOMAIN r \in {{"ok", "val"}, {"ok", "err"}}
    /\ r.ok <=> "val" \in DOMAIN r
    /\ ~r.ok => r.err.variant \in VariantsOf(c.op)

\* C2 as stated: every fallible operation answers success or one error that
\* names the operation and carries the path(s) (or name) it was given.
C2_EveryErrorCarriesItsPaths ==
    call.op \in FallibleOps =>
        /\ WellFormedResult(call, result)
        /\ ~result.ok => Carries(result.err, call)

\* C2 as amended: the same of every fallible operation but open_browser,
\* whose error is the bare OpeningBrowser and carries no path.
C2_ErrorsCarryPathsButBrowser ==
    call.op \in FallibleOps =>
        /\ WellFormedResult(call, result)
        /\ (~result.ok /\ call.op # "open_browser") => Carries(result.err, call)
        /\ (~result.ok /\ call.op = "open_browser") => DOMAIN result.err = {"variant"}

C2_Witness ==
    /\ call.op = "rename_dir"
    /\ call.src # call.dest
    /\ ~result.ok
    /\ result.err.src = call.src
    /\ result.err.dest = call.dest

\* C4: canonicalize_path always answers a path: the resolved path and no
\* notification when the path resolves, the path it was given and exactly
\* one no-canonical-path notification when it does not.
C4_CanonicalizeNeverFails ==
    call.op = "canonicalize_path" =>
        IF Stat(fs, call.path) # "none"
        THEN /\ result = Target(fs, call.path)
             /\ NotifyIndexes = {}
        ELSE /\ result = call.path
             /\ Cardinality(NotifyIndexes) = 1
             /\ \A n \in NotifyIndexes :
                    trace[n] = Notified("NoCanonicalPath", call.path, "")

C4_Witness ==
    /\ call.op = "canonicalize_path"
    /\ fs[call.path].kind = "none"
    /\ result = call.path
    /\ Cardinality(NotifyIndexes) = 1

\* C5: cmd_status answers success exactly when the process was launched and
\* exited with code 0, the launch error with the name when it could not be
\* launched, and the command-status error with the name and the exit
\* status when it ran and did not exit with 0.
C5_CmdStatusOutcomes ==
    call.op = "cmd_status" =>
        LET st == call.status
            zero == st.ok /\ st.val.exited /\ st.val.code = 0
        IN  /\ result.ok <=> zero
            /\ ~st.ok => result = Err(RunningCommand(call.name, IoError))
            /\ (st.ok /\ ~zero) => result = Err(CommandStatus(call.name, st.val))

C5_Witness ==
    /\ call.op = "cmd_status"
    /\ call.status.ok
    /\ call.status.val = Exited(1)
    /\ result = Err(CommandStatus(call.name, Exited(1)))

\* C8: assert_is_file succeeds exactly on an existing regular file and
\* otherwise answers not-a-file with the path; assert_is_directory succeeds
\* exactly on an existing directory and otherwise answers not-a-directory
\* with the path.
C8_AssertKind ==
    /\ call.op = "assert_is_file" =>
           /\ result.ok <=> Stat(fs, call.path) = "file"
           /\ ~result.ok => result = Err(NotAFile(call.path))
    /\ call.op = "assert_is_directory" =>
           /\ result.ok <=> Stat(fs, call.path) = "dir"
           /\ ~result.ok => result = Err(NotADirectory(call.path))

C8_Witness ==
    /\ call.op = "assert_is_directory"
    /\ fs[call.path].kind = "file"
    /\ result = Err(NotADirectory(call.path))

(***************************************************************************)
(* SpecDownload: download_file with the stream in view.  The facade        *)
(* notifies and hands url, path and hasher to raw::download_file, which    *)
(* creates the destination, then takes the stream chunk by chunk: each     *)
(* chunk goes to the hasher, when there is one, and to the file.           *)
(***************************************************************************)
MaxByte == 1

MaxLen == 3

MaxChunk == 2

Bytes == 0..MaxByte

RECURSIVE SeqsUpTo(_)
SeqsUpTo(n) ==
    IF n = 0 THEN {<<>>}
    ELSE SeqsUpTo(n - 1) \cup {Append(q, b) : q \in {x \in SeqsUpTo(n - 1) : Len(x) = n - 1}, b \in Bytes}

Streams == SeqsUpTo(MaxLen)

\* The hasher: an accumulator that depends on every byte and on their order.
FreshHasher == [state |-> 7, fed |-> <<>>]

RECURSIVE hasher_write(_, _)
hasher_write(h, bytes) ==
    IF bytes = <<>> THEN h
    ELSE hasher_write([state |-> (h.state * 31 + Head(bytes) + 1) % 65521,
                       fed |-> Append(h.fed, Head(bytes))],
                      Tail(bytes))

Digest(bytes) == hasher_write(FreshHasher, bytes).state

\* A facade that keeps the hasher to itself.
raw_download_args_no_hasher(url, path, hasher) ==
    [url |-> url, path |-> path, hasher |-> FALSE]

\* What the facade hands to raw::download_file.
raw_download_args(url, path, hasher) ==
    [url |-> url, path |-> path, hasher |-> hasher]

\* The destination may hold older content; a call keeps nothing else from
\* the call before it.
d_call ==
    /\ dl.pc = "idle"
    /\ \E url \in Urls, path \in Paths, hasher \in BOOLEAN, stream \in Streams :
           dl' = [pc |-> "create", url |-> url, path |-> path, given |-> hasher,
                  args |-> raw_download_args(url, path, hasher),
                  stream |-> stream, rest |-> stream, file |-> dl.file,
                  hasher |-> FreshHasher, failed |-> FALSE,
                  notes |-> <<Notified("DownloadingFile", url, path)>>,
                  r |-> Ok(Unit), result |-> Ok(Unit)]
    /\ UNCHANGED outsideDownload

\* The destination is created, empty, or cannot be.
d_create ==
    /\ dl.pc = "create"
    /\ \E io \in BOOLEAN :
           dl' = IF io
                 THEN [dl EXCEPT !.pc = "ret", !.r = Err(IoError), !.failed = TRUE]
                 ELSE [dl EXCEPT !.pc = "stream", !.file = <<>>]
    /\ UNCHANGED outsideDownload

\* One read of the stream: it fails, or yields a chunk, which is fed to the
\* hasher and then written; the write may fail.
d_chunk ==
    /\ dl.pc = "stream"
    /\ dl.rest # <<>>
    /\ \E k \in 1..MaxChunk, io \in {"ok", "read", "write"} :
           /\ k <= Len(dl.rest)
           /\ LET chunk == SubSeq(dl.rest, 1, k)
                  h == IF dl.args.hasher THEN hasher_write(dl.hasher, chunk)
                       ELSE dl.hasher
              IN  dl' = CASE io = "read" ->
                                [dl EXCEPT !.pc = "ret", !.r = Err(IoError),
                                           !.failed = TRUE]
                          [] io = "write" ->
                                [dl EXCEPT !.pc = "ret", !.r = Err(IoError),
                                           !.failed = TRUE, !.hasher = h]
                          [] io = "ok" ->
                                [dl EXCEPT !.hasher = h,
                                           !.file = dl.file \o chunk,
                                           !.rest = SubSeq(dl.rest, k + 1,
                                                           Len(dl.rest))]
    /\ UNCHANGED outsideDownload

d_eof ==
    /\ dl.pc = "stream"
    /\ dl.rest = <<>>
    /\ dl' = [dl EXCEPT !.pc = "ret", !.r = Ok(Unit)]
    /\ UNCHANGED outsideDownload

d_return ==
    /\ dl.pc = "ret"
    /\ dl' = [dl EXCEPT !.pc = "done",
                        !.result = download_file_result(dl.url, dl.path, dl.r)]
    /\ UNCHANGED outsideDownload

InitDownload ==
    /\ \E old \in {<<>>, <<1>>, <<0, 1>>} : dl = [pc |-> "idle", file |-> old]
    /\ fs = [p \in Paths |-> NoNode]
    /\ windows = FALSE
    /\ IdleFacade
    /\ IdleEnsure
    /\ IdleMatch
    /\ IdlePerm

NextDownload ==
    \/ d_call
    \/ d_create
    \/ d_chunk
    \/ d_eof
    \/ d_return

SpecDownload == InitDownload /\ [][NextDownload]_vars

\* C6: with a hasher given, the bytes fed to it are the bytes written to the
\* destination, each once and in stream order, as long as the download has
\* not failed; when the call reports success they are the whole stream, and
\* the hasher's digest is the digest of the destination file's content.
C6_HasherSeesTheFile ==
    (dl.pc \notin {"idle", "create"} /\ dl.given) =>
        /\ ~dl.failed => dl.hasher.fed = dl.file
        /\ (dl.pc = "done" /\ dl.result.ok) =>
               /\ dl.hasher.fed = dl.stream
               /\ dl.file = dl.stream
               /\ dl.hasher.state = Digest(dl.file)

C6_Witness ==
    /\ dl.pc = "done"
    /\ dl.given
    /\ dl.result.ok
    /\ Len(dl.stream) = 3
    /\ dl.file = dl.stream
    /\ dl.hasher.state = Digest(dl.file)
    /\ Digest(dl.file) # Digest(<<>>)

(***************************************************************************)
(* SpecMatch: match_file with the lines in view.  raw::match_file opens    *)
(* src and reads it line by line, giving each line to the mapper until the *)
(* mapper yields a value; the facade maps a read failure.                  *)
(***************************************************************************)
MaxLines == 3

LineValues == {"a", "target", "b"}

NoValue == "None"

MapperValues == {NoValue, "x", "y"}

RECURSIVE LinesUpTo(_)
LinesUpTo(n) ==
    IF n = 0 THEN {<<>>}
    ELSE LinesUpTo(n - 1) \cup {Append(q, l) : q \in {x \in LinesUpTo(n - 1) : Len(x) = n - 1}, l \in LineValues}

\* A call keeps nothing from the call before it: one call is every call.
m_call ==
    /\ mt.pc = "idle"
    /\ \E name \in Names, src \in Paths, lines \in LinesUpTo(MaxLines),
          f \in [LineValues -> MapperValues] :
           mt' = [pc |-> "open", name |-> name, src |-> src, lines |-> lines,
                  f |-> f, next |-> 1, evaluated |-> <<>>, failed |-> FALSE,
                  r |-> Ok(NoValue), result |-> Ok(NoValue)]
    /\ UNCHANGED outsideMatch

m_open ==
    /\ mt.pc = "open"
    /\ \E io \in BOOLEAN :
           mt' = IF io
                 THEN [mt EXCEPT !.pc = "ret", !.r = Err(IoError), !.failed = TRUE]
                 ELSE [mt EXCEPT !.pc = "lines"]
    /\ UNCHANGED outsideMatch

\* One line is read, or the read fails; the mapper sees the line, and a
\* value it yields ends the call.
m_line ==
    /\ mt.pc = "lines"
    /\ mt.next <= Len(mt.lines)
    /\ \E io \in BOOLEAN :
           LET line == mt.lines[mt.next]
               v == mt.f[line]
           IN  mt' = IF io
                     THEN [mt EXCEPT !.pc = "ret", !.r = Err(IoError),
                                     !.failed = TRUE]
                     ELSE IF v # NoValue
                     THEN [mt EXCEPT !.pc = "ret", !.r = Ok(v),
                                     !.evaluated = Append(@, line)]
                     ELSE [mt EXCEPT !.next = @ + 1,
                                     !.evaluated = Append(@, line)]
    /\ UNCHANGED outsideMatch

m_eof ==
    /\ mt.pc = "lines"
    /\ mt.next > Len(mt.lines)
    /\ mt' = [mt EXCEPT !.pc = "ret", !.r = Ok(NoValue)]
    /\ UNCHANGED outsideMatch

m_return ==
    /\ mt.pc = "ret"
    /\ mt' = [mt EXCEPT !.pc = "done",
                        !.result = match_file_result(mt.name, mt.src, mt.r)]
    /\ UNCHANGED outsideMatch

InitMatch ==
    /\ mt = [pc |-> "idle"]
    /\ fs = [p \in Paths |-> NoNode]
    /\ windows = FALSE
    /\ IdleFacade
    /\ IdleEnsure
    /\ IdleDownload
    /\ IdlePerm

NextMatch ==
    \/ m_call
    \/ m_open
    \/ m_line
    \/ m_eof
    \/ m_return

SpecMatch == InitMatch /\ [][NextMatch]_vars

\* The lines on which the mapper yields a value.
Hits(lines, f) == {i \in 1..Len(lines) : f[lines[i]] # NoValue}

FirstHit(lines, f) == CHOOSE i \in Hits(lines, f) : \A j \in Hits(lines, f) : i <= j

\* C9: match_file gives the mapper the lines of src in file order and
\* answers the mapper's value for the first line that has one, the mapper
\* never seeing a later line; it answers none when no line has a value; a
\* read failure is the file-read error with name and src.
C9_MatchFirstLine ==
    mt.pc \notin {"off", "idle"} =>
        /\ \E n \in 0..Len(mt.lines) : mt.evaluated = SubSeq(mt.lines, 1, n)
        /\ \A i \in 1..Len(mt.evaluated) :
               mt.f[mt.evaluated[i]] # NoValue => i = Len(mt.evaluated)
        /\ mt.pc = "done" =>
               IF mt.failed
               THEN mt.result = Err(ReadingFile(mt.name, mt.src, IoError))
               ELSE IF Hits(mt.lines, mt.f) = {}
               THEN mt.result = Ok(NoValue) /\ mt.evaluated = mt.lines
               ELSE LET h == FirstHit(mt.lines, mt.f)
                    IN  /\ mt.result = Ok(mt.f[mt.lines[h]])
                        /\ mt.evaluated = SubSeq(mt.lines, 1, h)

\* The mapper yields a value for "target" alone, on a, target, b: the call
\* answers that value and the mapper never sees b.
C9_Witness ==
    /\ mt.pc = "done"
    /\ mt.lines = <<"a", "target", "b">>
    /\ mt.f = [l \in LineValues |-> IF l = "target" THEN "x" ELSE NoValue]
    /\ mt.result = Ok("x")
    /\ mt.evaluated = <<"a", "target">>

(***************************************************************************)
(* SpecPerm: make_executable with the permission bits in view.  Where the  *)
(* build has the concept, the call reads the file's mode, ors the execute  *)
(* bits into it and writes it back.                                        *)
(***************************************************************************)
ModeBits == 12

MaxExecCalls == 2

\* 0o111
ExecBits == 73

RECURSIVE Pow2(_)
Pow2(n) == IF n = 0 THEN 1 ELSE 2 * Pow2(n - 1)

Modes == 0..(Pow2(ModeBits) - 1)

\* a | b on naturals
RECURSIVE BitOr(_, _)
BitOr(a, b) ==
    IF a = 0 THEN b
    ELSE IF b = 0 THEN a
    ELSE (IF a % 2 = 1 \/ b % 2 = 1 THEN 1 ELSE 0) + 2 * BitOr(a \div 2, b \div 2)

\* A new mode by addition.
new_mode_added(mode) == mode + ExecBits

\* let new_mode = perms.mode()|0o111
new_mode(mode) == BitOr(mode, ExecBits)

p_make_executable ==
    /\ pm.pc = "idle"
    /\ pm.calls < MaxExecCalls
    /\ \E ioMeta \in BOOLEAN, ioSet \in BOOLEAN :
           LET metaOk == pm.exists /\ ~ioMeta
               setOk == pm.exists /\ ~ioSet
               res == make_executable_result(windows, pm.path, metaOk, setOk)
               wrote == ~windows /\ metaOk /\ setOk
           IN  pm' = [pm EXCEPT !.calls = @ + 1,
                                !.before = pm.mode,
                                !.okBefore = pm.calls > 0 /\ pm.result.ok,
                                !.metaOk = metaOk,
                                !.setOk = setOk,
                                !.mode = IF wrote THEN new_mode(pm.mode) ELSE pm.mode,
                                !.result = res]
    /\ UNCHANGED <<windows, outsidePerm>>

InitPerm ==
    /\ windows \in BOOLEAN
    /\ \E path \in Paths, exists \in BOOLEAN, mode \in Modes :
           /\ ~exists => mode = 0
           /\ pm = [pc |-> "idle", path |-> path, exists |-> exists,
                    mode |-> mode, orig |-> mode, before |-> mode, calls |-> 0,
                    okBefore |-> FALSE, metaOk |-> FALSE, setOk |-> FALSE,
                    result |-> Ok(Unit)]
    /\ fs = [p \in Paths |-> NoNode]
    /\ IdleFacade
    /\ IdleEnsure
    /\ IdleDownload
    /\ IdleMatch

NextPerm == p_make_executable

SpecPerm == InitPerm /\ [][NextPerm]_vars

Bit(m, i) == (m \div Pow2(i)) % 2 = 1

\* The execute bits: others, group, owner.
ExecBitPlaces == {0, 3, 6}

\* C10: where the build has an executable bit, a successful make_executable
\* leaves the mode equal to the previous mode with the three execute bits
\* set: every bit that was set stays set, the execute bits are set and no
\* other bit is added, so a second successful call changes nothing; a failed
\* metadata read or permission write answers the permission-setting error
\* with the path and changes nothing.  Where the build has no such bit the
\* call succeeds and changes nothing.
C10_MakeExecutableBits ==
    pm.pc = "idle" /\ pm.calls > 0 =>
        IF windows
        THEN pm.result = Ok(Unit) /\ pm.mode = pm.before
        ELSE /\ pm.result.ok <=> (pm.metaOk /\ pm.setOk)
             /\ pm.result.ok =>
                    /\ \A i \in 0..(ModeBits - 1) :
                           Bit(pm.mode, i) <=> (Bit(pm.before, i) \/ i \in ExecBitPlaces)
                    /\ pm.mode \in Modes
                    /\ pm.okBefore => pm.mode = pm.before
             /\ ~pm.result.ok =>
                    /\ pm.result = Err(SettingPermissions(pm.path))
                    /\ pm.mode = pm.before

\* 0o644 became 0o755 (493), and a second call left 0o755.
C10_Witness ==
    /\ ~windows
    /\ pm.pc = "idle"
    /\ pm.calls = 2
    /\ pm.okBefore
    /\ pm.result.ok
    /\ pm.orig = 420
    /\ pm.before = 493
    /\ pm.mode = 493

====
